---- MODULE Spec2Model ----
(***************************************************************************)
(* Model of the code-provenance engine of src/evaluator.py: the normalizer *)
(* (normalize_code), the fingerprint (get_code_hash), the similarity       *)
(* estimator (calculate_similarity), the similarity search                 *)
(* (find_similar_submissions) and the score combiner (check_ai_generated). *)
(*                                                                         *)
(* A text is a sequence of one-character strings.  A similarity is kept as *)
(* the exact fraction n/d of the value (n/d)*100 that the code returns, a  *)
(* reported similarity as an integer number of tenths, and a threshold as  *)
(* an integer number of hundredths.                                        *)
(***************************************************************************)
EXTENDS Integers, Sequences, FiniteSets, TLC

VARIABLES pc, code1, code2, out, sim, corpus, excludeId, threshold, similar,
          scores, llm, assessment,
          aiInd, humanInd,      \* analysis['ai_indicators'], analysis['human_indicators']
          llmReason,            \* llm_result['reason']
          reply,                \* the outcome of the call of the advisory model
          submissions, idx, results,   \* the batch check: submissions, position, results
          openConns, stored,    \* the connections left open, the ai_score stored by id
          summary,              \* the lists of the summary report of the batch check
          saved                 \* the submissions saved by upload_c_file

vars == <<pc, code1, code2, out, sim, corpus, excludeId, threshold, similar,
          scores, llm, assessment, aiInd, humanInd, llmReason, reply,
          submissions, idx, results, openConns, stored, summary, saved>>

\* The variables of the advisory call and of the batch check.
batchVars == <<reply, submissions, idx, results, openConns, stored, summary, saved>>

\* The variables of the analysis and of the advisory reason.
reasonVars == <<aiInd, humanInd, llmReason>>

(***************************************************************************)
(* Bounds of the model.                                                    *)
(***************************************************************************)
MaxRawLen == 5
MaxBodyLen == 6
MaxCorpus == 3
MaxLines == 3
MaxSubs == 3
MaxChunks == 3
MaxCommentLen == 3
MaxComments == 4
MaxIndent == 8
MaxIndentLines == 3

(***************************************************************************)
(* Characters.                                                             *)
(***************************************************************************)
Whitespace == {" ", "\n"}

RawAlphabet == {"a", "A", "/", "*", " ", "\n"}

RECURSIVE SeqsUpTo(_, _)
SeqsUpTo(S, n) ==
    IF n = 0 THEN {<<>>}
    ELSE LET shorter == SeqsUpTo(S, n - 1)
         IN  shorter \cup {Append(s, c) : s \in {t \in shorter : Len(t) = n - 1}, c \in S}

Min(a, b) == IF a <= b THEN a ELSE b
Max(a, b) == IF a >= b THEN a ELSE b

(***************************************************************************)
(* normalize_code, src/evaluator.py:20-33.                                 *)
(***************************************************************************)
\* The end of the match of '.*' started at i: the first line break at or
\* after i, or the end of the text ('.' matches every character but "\n").
EndOfLine(s, i) ==
    LET brk == {j \in i..Len(s) : s[j] = "\n"}
    IN  IF brk = {} THEN Len(s) + 1 ELSE CHOOSE j \in brk : \A k \in brk : j <= k

\* re.sub(r'//.*', '', code): scanning from position i, each leftmost '//'
\* is removed with the rest of its line; the line break is kept.
RECURSIVE StripLineComments(_, _)
StripLineComments(s, i) ==
    IF i > Len(s) THEN <<>>
    ELSE IF i < Len(s) /\ s[i] = "/" /\ s[i + 1] = "/"
         THEN StripLineComments(s, EndOfLine(s, i))
         ELSE <<s[i]>> \o StripLineComments(s, i + 1)

\* The positions j of a '*/' that can close a '/*' opened at i: '.*?' may be
\* empty, so the closing '*' is at i+2 or later.
BlockClosers(s, i) == {j \in (i + 2)..(Len(s) - 1) : s[j] = "*" /\ s[j + 1] = "/"}

\* re.sub(r'/\*.*?\*/', '', code, flags=re.DOTALL): each leftmost '/*' that
\* has a closing '*/' is removed up to its first closing; an unclosed '/*'
\* is kept.
RECURSIVE StripBlockComments(_, _)
StripBlockComments(s, i) ==
    IF i > Len(s) THEN <<>>
    ELSE IF i < Len(s) /\ s[i] = "/" /\ s[i + 1] = "*" /\ BlockClosers(s, i) # {}
         THEN LET j == CHOOSE j \in BlockClosers(s, i) :
                          \A k \in BlockClosers(s, i) : j <= k
              IN  StripBlockComments(s, j + 2)
         ELSE <<s[i]>> \o StripBlockComments(s, i + 1)

\* re.sub(r'\s+', '', code)
IsNotSpace(c) == c \notin Whitespace
RemoveWhitespace(s) == SelectSeq(s, IsNotSpace)

\* str.lower()
LowerTable ==
    ("A" :> "a") @@ ("B" :> "b") @@ ("C" :> "c") @@ ("D" :> "d") @@ ("E" :> "e") @@
    ("F" :> "f") @@ ("G" :> "g") @@ ("H" :> "h") @@ ("I" :> "i") @@ ("J" :> "j") @@
    ("K" :> "k") @@ ("L" :> "l") @@ ("M" :> "m") @@ ("N" :> "n") @@ ("O" :> "o") @@
    ("P" :> "p") @@ ("Q" :> "q") @@ ("R" :> "r") @@ ("S" :> "s") @@ ("T" :> "t") @@
    ("U" :> "u") @@ ("V" :> "v") @@ ("W" :> "w") @@ ("X" :> "x") @@ ("Y" :> "y") @@
    ("Z" :> "z")

LowerChar(c) == IF c \in DOMAIN LowerTable THEN LowerTable[c] ELSE c
Lower(s) == [i \in 1..Len(s) |-> LowerChar(s[i])]

normalize_code(code) ==
    Lower(RemoveWhitespace(StripBlockComments(StripLineComments(code, 1), 1)))

(***************************************************************************)
(* get_code_hash, src/evaluator.py:36-39.  The MD5 digest is a function of *)
(* the normalized text alone; it is kept as the tagged normalized text, so *)
(* equal normalized texts give equal digests (digest collisions between    *)
(* different normalized texts are not modelled).                           *)
(***************************************************************************)
\* Mutant: the digest is taken of the text as submitted.
get_code_hash_Raw(code) == <<"md5", code>>

get_code_hash(code) == <<"md5", normalize_code(code)>>

(***************************************************************************)
(* calculate_similarity, src/evaluator.py:42-70.  The value returned is    *)
(* (n/d)*100 for the fraction [n, d] computed here.                        *)
(***************************************************************************)
ShingleLen == 5

Frac(n, d) == [n |-> n, d |-> d]
Zero == Frac(0, 1)

\* Mutant: the quick check compares the lengths in the order given.
VeryDifferent_InOrder(len1, len2) == 2 * len1 < len2

\* min(len1, len2) / max(len1, len2) < 0.5
VeryDifferent(len1, len2) == 2 * Min(len1, len2) < Max(len1, len2)

\* Mutant: the quick check returns max/min.
LengthRatio_Inverted(len1, len2) == Frac(Max(len1, len2), Min(len1, len2))

\* (min(len1, len2) / max(len1, len2)) * 100
LengthRatio(len1, len2) == Frac(Min(len1, len2), Max(len1, len2))

\* Mutant: the last shingle is left out (range(len(norm)-5)).
Shingles_OffByOne(norm) ==
    IF Len(norm) >= ShingleLen
    THEN {SubSeq(norm, i, i + ShingleLen - 1) : i \in 1..(Len(norm) - ShingleLen)}
    ELSE {norm}

\* set(norm[i:i+5] for i in range(len(norm)-4)) if len(norm) >= 5 else {norm}
Shingles(norm) ==
    IF Len(norm) >= ShingleLen
    THEN {SubSeq(norm, i, i + ShingleLen - 1) : i \in 1..(Len(norm) - (ShingleLen - 1))}
    ELSE {norm}

\* Mutant: the union is taken as the sum of the two sizes.
Jaccard_SumOfSizes(set1, set2) ==
    LET intersection == Cardinality(set1 \cap set2)
        union == Cardinality(set1) + Cardinality(set2)
    IN  IF union > 0 THEN Frac(intersection, union) ELSE Zero

\* (intersection / union) * 100 if union > 0 else 0.0
Jaccard(set1, set2) ==
    LET intersection == Cardinality(set1 \cap set2)
        union == Cardinality(set1 \cup set2)
    IN  IF union > 0 THEN Frac(intersection, union) ELSE Zero

calculate_similarity(c1, c2) ==
    LET norm1 == normalize_code(c1)
        norm2 == normalize_code(c2)
        len1 == Len(norm1)
        len2 == Len(norm2)
        set1 == Shingles(norm1)
        set2 == Shingles(norm2)
    IN  IF norm1 = <<>> \/ norm2 = <<>> THEN Zero
        ELSE IF VeryDifferent(len1, len2) THEN LengthRatio(len1, len2)
        ELSE IF set1 = {} \/ set2 = {} THEN Zero
        ELSE Jaccard(set1, set2)

\* Comparisons of the fractions by value.
FracEq(f, g) == f.n * g.d = g.n * f.d
FracLeq(f, g) == f.n * g.d <= g.n * f.d
FracLess(f, g) == f.n * g.d < g.n * f.d
Hundred == Frac(1, 1)
Half == Frac(1, 2)

(***************************************************************************)
(* find_similar_submissions, src/evaluator.py:450-500.  A corpus entry is  *)
(* [id, file_content]; an empty file_content stands for an empty or a      *)
(* missing one.  A returned entry is [submission_id, similarity], the      *)
(* similarity in tenths (100.0 is 1000).                                   *)
(***************************************************************************)
\* current_submission_id: int = None
None == -1

\* round(x) of the fraction num/den, ties to the even neighbour.
RoundHalfEven(num, den) ==
    LET q == num \div den
        r == num % den
    IN  IF 2 * r < den THEN q
        ELSE IF 2 * r > den THEN q + 1
        ELSE IF q % 2 = 0 THEN q ELSE q + 1

\* round(sim, 1), in tenths
RoundTenths(f) == RoundHalfEven(1000 * f.n, f.d)

\* sim >= threshold, the threshold in hundredths
AtLeast(f, thr) == 10000 * f.n >= thr * f.d

\* Mutant: no entry is skipped for its content.
NoContent_Never(sub) == FALSE

\* not sub.get('file_content')
NoContent(sub) == sub.file_content = <<>>

\* current_submission_id and sub.get('id') == current_submission_id
IsCurrent(sub, cur) == (cur # None /\ cur # 0) /\ sub.id = cur

Match(sub, tenths) == [submission_id |-> sub.id, similarity |-> tenths]

\* The loop over all_submissions, from entry i on.
RECURSIVE CollectSimilar(_, _, _, _, _)
CollectSimilar(code, subs, cur, thr, i) ==
    IF i > Len(subs) THEN <<>>
    ELSE LET sub == subs[i]
             rest == CollectSimilar(code, subs, cur, thr, i + 1)
         IN  IF NoContent(sub) THEN rest
             ELSE IF IsCurrent(sub, cur) THEN rest
             ELSE IF get_code_hash(sub.file_content) = get_code_hash(code)
                  THEN <<Match(sub, 1000)>> \o rest
                  ELSE LET s == calculate_similarity(code, sub.file_content)
                       IN  IF AtLeast(s, thr)
                           THEN <<Match(sub, RoundTenths(s))>> \o rest
                           ELSE rest

\* Mutant: the list is returned in corpus order.
SortDescending_Unsorted(l) == l

\* similar.sort(key=lambda x: x['similarity'], reverse=True): a stable sort,
\* entries of equal similarity keep their order.
RECURSIVE SortDescending(_)
SortDescending(l) ==
    IF l = <<>> THEN <<>>
    ELSE LET e == l[Len(l)]
             sorted == SortDescending(SubSeq(l, 1, Len(l) - 1))
             k == Cardinality({j \in 1..Len(sorted) : sorted[j].similarity >= e.similarity})
         IN  SubSeq(sorted, 1, k) \o <<e>> \o SubSeq(sorted, k + 1, Len(sorted))

find_similar_submissions(code, subs, cur, thr) ==
    SortDescending(CollectSimilar(code, subs, cur, thr, 1))

(***************************************************************************)
(* check_ai_generated, src/evaluator.py:282-349.  The weights are kept in  *)
(* hundredths.  The code adds and rounds in binary floating point: away    *)
(* from an exact half the rounded value is the nearest integer; at an      *)
(* exact half the accumulated error decides, and either neighbour can be   *)
(* the outcome.                                                            *)
(***************************************************************************)
Heuristics ==
    {"variables", "comments", "indentation", "functions", "error_handling", "debug",
     "line_length", "spacing"}

\* Mutant: the debug subscore is subtracted.
weights_DebugSubtracted ==
    [variables |-> 20, comments |-> 20, indentation |-> 15, functions |-> 10,
     error_handling |-> 15, debug |-> 0 - 10, line_length |-> 5, spacing |-> 5]

\* weights = {...}, in hundredths
weights ==
    [variables |-> 20, comments |-> 20, indentation |-> 15, functions |-> 10,
     error_handling |-> 15, debug |-> 10, line_length |-> 5, spacing |-> 5]

DefaultScore == 50

\* analysis['scores'].get(key, 50)
ScoreOf(sc, key) == IF key \in DOMAIN sc THEN sc[key] ELSE DefaultScore

RECURSIVE WeightedSum(_, _)
WeightedSum(sc, keys) ==
    IF keys = {} THEN 0
    ELSE LET key == CHOOSE k \in keys : TRUE
         IN  ScoreOf(sc, key) * weights[key] + WeightedSum(sc, keys \ {key})

\* rule_score, times 100
RuleScore100(sc) == WeightedSum(sc, Heuristics)

\* The outcomes of int(round(num/den)) computed in floating point.
Rounded(num, den) ==
    IF 2 * (num % den) = den
    THEN {num \div den, (num \div den) + 1}
    ELSE {RoundHalfEven(num, den)}

\* Mutant: the two scores are weighted 0.5 and 0.5.
CombinedScores_EvenSplit(sc, llm_score) ==
    Rounded(5 * RuleScore100(sc) + 500 * llm_score, 1000)

\* Mutant: the advisory score is left out, the combined score is the rule
\* score.
CombinedScores_RuleOnly(sc, llm_score) == Rounded(10 * RuleScore100(sc), 1000)

\* int(round(rule_score * 0.6 + llm_score * 0.4))
CombinedScores(sc, llm_score) == Rounded(6 * RuleScore100(sc) + 400 * llm_score, 1000)

AiThreshold == 65
HumanThreshold == 35

\* Mutant: the verdict thresholds of the other revision, 70 and 40.
Verdict_70_40(combined_score) ==
    IF combined_score >= 70 THEN "Likely AI"
    ELSE IF combined_score <= 40 THEN "Likely Human"
    ELSE "Uncertain"

Verdict(combined_score) ==
    IF combined_score >= AiThreshold THEN "Likely AI"
    ELSE IF combined_score <= HumanThreshold THEN "Likely Human"
    ELSE "Uncertain"

\* ai_label of the submission report, src/email_utils.py:84 and :241.
ai_label(ai_score) ==
    IF ai_score >= 70 THEN "Likely AI"
    ELSE IF ai_score >= 40 THEN "Uncertain"
    ELSE "Likely Human"

(***************************************************************************)
(* The reason of an assessment.  A reason text of the advisory model is a  *)
(* sequence of characters; an indicator of the analysis is kept as the     *)
(* one-element sequence of its message, without the counts the message     *)
(* quotes.  The '; '-joined string is kept as the sequence of its parts,   *)
(* each with its tag.                                                      *)
(***************************************************************************)
Unavailable == <<"u", "n", "a", "v", "a", "i", "l", "a", "b", "l", "e">>

\* 'unavailable' not in llm_reason.lower()
MentionsUnavailable(reason) ==
    \E i \in 1..(Len(reason) - Len(Unavailable) + 1) :
        SubSeq(Lower(reason), i, i + Len(Unavailable) - 1) = Unavailable

ReasonLimit == 100

\* llm_reason[:100]
Truncated(reason) == SubSeq(reason, 1, Min(Len(reason), ReasonLimit))

Part(tag, text) == [tag |-> tag, text |-> text]

StandardCodePatterns == <<Part("", <<"Standard code patterns">>)>>

\* if llm_reason and 'unavailable' not in llm_reason.lower(): ...
LlmPart(llm_reason) ==
    IF llm_reason # <<>> /\ ~MentionsUnavailable(llm_reason)
    THEN <<Part("[LLM]", Truncated(llm_reason))>>
    ELSE <<>>

\* Mutant: the last indicator of each list is surfaced, not the first.
Reason_LastIndicator(ai, human, llm_reason) ==
    LET indicators ==
            (IF ai # <<>> THEN <<Part("[Pattern]", ai[Len(ai)])>> ELSE <<>>)
            \o (IF human # <<>> THEN <<Part("[Pattern]", human[Len(human)])>> ELSE <<>>)
            \o LlmPart(llm_reason)
    IN  IF indicators # <<>> THEN indicators ELSE StandardCodePatterns

\* indicators, then "; ".join(indicators) if indicators else "Standard code patterns"
Reason(ai, human, llm_reason) ==
    LET indicators ==
            (IF ai # <<>> THEN <<Part("[Pattern]", ai[1])>> ELSE <<>>)
            \o (IF human # <<>> THEN <<Part("[Pattern]", human[1])>> ELSE <<>>)
            \o LlmPart(llm_reason)
    IN  IF indicators # <<>> THEN indicators ELSE StandardCodePatterns

\* Mutant: the ai_score is the sum of the two scores, not weighted and not
\* clamped.
Assessment_SumOfScores(combined_score, sc, ai, human, llm_score, llm_reason) ==
    [ai_score |-> (RuleScore100(sc) \div 100) + llm_score,
     verdict |-> Verdict(combined_score),
     llm_score |-> llm_score,
     reason |-> Reason(ai, human, llm_reason)]

\* The result of check_ai_generated for a combined score.
Assessment(combined_score, sc, ai, human, llm_score, llm_reason) ==
    [ai_score |-> Min(100, Max(0, combined_score)),
     verdict |-> Verdict(combined_score),
     llm_score |-> llm_score,
     reason |-> Reason(ai, human, llm_reason)]

(***************************************************************************)
(* The outcomes of the eight heuristics of analyze_code_patterns,          *)
(* src/evaluator.py:99-211: the subscore each branch assigns and the       *)
(* indicator it appends, AI-leaning or human-leaning.                      *)
(***************************************************************************)
HeuristicOrder ==
    <<"variables", "comments", "indentation", "functions", "error_handling", "debug",
      "line_length", "spacing">>

Branch(score, lean, msg) == [score |-> score, lean |-> lean, msg |-> <<msg>>]

Branches ==
    [variables |->
        {Branch(70, "ai", "Standard variable names"),
         Branch(30, "human", "Creative variable naming"),
         Branch(50, "none", "")},
     comments |->
        {Branch(75, "ai", "Well-structured comments"),
         Branch(20, "human", "No comments (typical human code)"),
         Branch(25, "human", "Short/terse comments"),
         Branch(50, "none", "")},
     indentation |->
        {Branch(70, "ai", "Perfect indentation"),
         Branch(20, "human", "Inconsistent indentation"),
         Branch(50, "none", "")},
     functions |->
        {Branch(65, "ai", "Descriptive function names"),
         Branch(40, "none", "")},
     error_handling |->
        {Branch(75, "ai", "Comprehensive error handling"),
         Branch(20, "human", "No explicit error handling"),
         Branch(45, "none", "")},
     debug |->
        {Branch(15, "human", "Debug/test code found"),
         Branch(60, "none", "")},
     line_length |->
        {Branch(65, "ai", "Consistent line lengths (< 80 chars)"),
         Branch(25, "human", "Long lines (human typing)"),
         Branch(50, "none", "")},
     spacing |->
        {Branch(60, "none", ""),
         Branch(45, "none", "")}]

\* The indicators of one kind that the heuristics from the i-th on append,
\* in the order of the heuristics, for the subscores sc.
RECURSIVE IndicatorsFrom(_, _, _)
IndicatorsFrom(sc, lean, i) ==
    IF i > Len(HeuristicOrder) THEN <<>>
    ELSE LET h == HeuristicOrder[i]
             hit == {b \in Branches[h] : h \in DOMAIN sc /\ b.score = sc[h] /\ b.lean = lean}
         IN  (IF hit = {} THEN <<>> ELSE <<(CHOOSE b \in hit : TRUE).msg>>)
             \o IndicatorsFrom(sc, lean, i + 1)

AiIndicatorsOf(sc) == IndicatorsFrom(sc, "ai", 1)
HumanIndicatorsOf(sc) == IndicatorsFrom(sc, "human", 1)

\* The subscores analyze_code_patterns can assign, src/evaluator.py:99-211.
SubScores ==
    [variables : {30, 50, 70}, comments : {20, 25, 50, 75}, indentation : {20, 50, 70},
     functions : {40, 65}, error_handling : {20, 45, 75}, debug : {15, 60},
     line_length : {25, 50, 65}, spacing : {45, 60}]

\* The scores get_llm_ai_analysis can return: min(100, max(0, ai_score)).
LlmScores == 0..100

\* The reasons get_llm_ai_analysis can return: that of a failed call, the
\* default of a reply without a reason, a short reason, a reason that uses
\* the word 'unavailable', and a reason of more than 100 characters.
ReasonFailure ==
    <<"L", "L", "M", " ">> \o Unavailable \o <<":", " ", "t", "i", "m", "e", "o", "u", "t">>

ReasonCompleted ==
    <<"L", "L", "M", " ", "a", "n", "a", "l", "y", "s", "i", "s", " ",
      "c", "o", "m", "p", "l", "e", "t", "e", "d">>

ReasonPlain == <<"T", "e", "r", "s", "e", " ", "n", "a", "m", "e", "s">>

ReasonMentions ==
    <<"C", "o", "m", "m", "e", "n", "t", "s", " ", "U", "n", "a", "v", "a", "i", "l",
      "a", "b", "l", "e">>

ReasonLong == [i \in 1..(ReasonLimit + 1) |-> "x"]

\* The results of get_llm_ai_analysis given to the combiner: every score
\* with a short reason, three scores with each other reason of a reply, and
\* the result of a failed call.
LlmResults ==
    [ai_score : LlmScores, reason : {ReasonPlain}]
        \cup [ai_score : {0, 50, 90}, reason : {ReasonCompleted, ReasonMentions, ReasonLong}]
        \cup {[ai_score |-> 50, reason |-> ReasonFailure]}

(***************************************************************************)
(* The normalizer called on its own.                                       *)
(***************************************************************************)
RawTexts == SeqsUpTo(RawAlphabet, MaxRawLen)

\* Texts of C code around one block comment: code, '/*', a comment body
\* that does not hold the closing '*/', '*/', code.
CommentAlphabet == {"a", "/", "*", "\n"}

CommentBodies ==
    {b \in SeqsUpTo(CommentAlphabet, MaxCommentLen) :
        \A i \in 1..(Len(b) - 1) : ~(b[i] = "*" /\ b[i + 1] = "/")}

CodeBefore == {<<>>, <<"a">>}
CodeAfter == {<<>>, <<"A">>, <<"\n", "A">>}

BlockCommented(before, body, after) ==
    before \o <<"/", "*">> \o body \o <<"*", "/">> \o after

BlockCommentTexts ==
    {BlockCommented(p, b, q) : p \in CodeBefore, b \in CommentBodies, q \in CodeAfter}

NormalizerTexts == RawTexts \cup BlockCommentTexts

NoScores == [h \in Heuristics |-> 0]
NoAssessment == [ai_score |-> 0, verdict |-> "none", llm_score |-> 0, reason |-> <<>>]

NoReply == [fails |-> FALSE, lines |-> <<>>]
NoSummary == [likely_ai |-> <<>>, uncertain |-> <<>>, likely_human |-> <<>>]

ReasonIdle ==
    /\ aiInd = <<>>
    /\ humanInd = <<>>
    /\ llmReason = <<>>

BatchIdle ==
    /\ reply = NoReply
    /\ submissions = <<>>
    /\ idx = 0
    /\ results = <<>>
    /\ openConns = 0
    /\ stored = <<>>
    /\ summary = NoSummary
    /\ saved = <<>>

InitNormalize ==
    /\ pc = "idle"
    /\ code1 \in NormalizerTexts
    /\ code2 = <<>>
    /\ out = <<>>
    /\ sim = Zero
    /\ corpus = <<>>
    /\ excludeId = 0
    /\ threshold = 0
    /\ similar = <<>>
    /\ scores = NoScores
    /\ llm = 0
    /\ assessment = NoAssessment
    /\ ReasonIdle
    /\ BatchIdle

Normalize ==
    /\ pc = "idle"
    /\ out' = normalize_code(code1)
    /\ pc' = "normalized"
    /\ UNCHANGED <<code1, code2, sim, corpus, excludeId, threshold, similar, scores, llm,
                   assessment, reasonVars, batchVars>>

SpecNormalize == InitNormalize /\ [][Normalize]_vars

\* C1: normalize_code is idempotent: normalizing a normalized text changes
\* nothing.
C1_Idempotent == pc = "normalized" => normalize_code(out) = out

\* C21: normalize_code removes block comments: of a text made of code, a
\* block comment and code, the output is the code before and the code after
\* the comment, without whitespace and in lower case; nothing of the comment
\* is left, also when the comment holds '//' or a line break.
C21_BlockCommentsRemoved ==
    pc = "normalized" =>
        \A p \in CodeBefore, b \in CommentBodies, q \in CodeAfter :
            code1 = BlockCommented(p, b, q) => out = Lower(RemoveWhitespace(p \o q))

(***************************************************************************)
(* The similarity estimator called on a pair of texts.  A text is a body   *)
(* of code over {a, b}, plain, followed by a line comment, or written in   *)
(* upper case after a blank.                                               *)
(***************************************************************************)
Bodies == SeqsUpTo({"a", "b"}, MaxBodyLen)

UpperChar(c) == IF c = "a" THEN "A" ELSE IF c = "b" THEN "B" ELSE c
Upper(s) == [i \in 1..Len(s) |-> UpperChar(s[i])]

Plain(b) == b
Commented(b) == b \o <<"/", "/", "b">>
Spaced(b) == <<" ">> \o Upper(b)

SimTexts == {Plain(b) : b \in Bodies} \cup {Commented(b) : b \in Bodies}
                \cup {Spaced(b) : b \in Bodies}

InitSimilarity ==
    /\ pc = "idle"
    /\ code1 \in SimTexts
    /\ code2 \in SimTexts
    /\ out = <<>>
    /\ sim = Zero
    /\ corpus = <<>>
    /\ excludeId = 0
    /\ threshold = 0
    /\ similar = <<>>
    /\ scores = NoScores
    /\ llm = 0
    /\ assessment = NoAssessment
    /\ ReasonIdle
    /\ BatchIdle

Similarity ==
    /\ pc = "idle"
    /\ sim' = calculate_similarity(code1, code2)
    /\ pc' = "compared"
    /\ UNCHANGED <<code1, code2, out, corpus, excludeId, threshold, similar, scores, llm,
                   assessment, reasonVars, batchVars>>

SpecSimilarity == InitSimilarity /\ [][Similarity]_vars

C5_Symmetric ==
    pc = "compared" => FracEq(sim, calculate_similarity(code2, code1))

C5_Witness ==
    /\ pc = "compared"
    /\ Len(normalize_code(code1)) < Len(normalize_code(code2))
    /\ FracLess(Zero, sim)
    /\ FracLess(sim, Hundred)
    /\ FracEq(sim, calculate_similarity(code2, code1))

\* The 5-character substrings of a normalized text, the whole text when it
\* is shorter, as the claims C6 and C7 state them.
Substrings5(t) ==
    IF Len(t) < 5 THEN {t}
    ELSE {[i \in 1..5 |-> t[k + i]] : k \in 0..(Len(t) - 5)}

JaccardOf(t1, t2) ==
    Frac(Cardinality(Substrings5(t1) \cap Substrings5(t2)),
         Cardinality(Substrings5(t1) \cup Substrings5(t2)))

C7_NeverOverEstimates ==
    LET t1 == normalize_code(code1)
        t2 == normalize_code(code2)
    IN  (pc = "compared" /\ t1 # <<>> /\ t2 # <<>>
            /\ 2 * Min(Len(t1), Len(t2)) < Max(Len(t1), Len(t2)))
        => FracLeq(sim, JaccardOf(t1, t2))

\* C7 (amended): with a normalized length ratio below 0.5, the value
\* returned is below 50.
C7_ShortCircuitBelowHalf ==
    LET t1 == normalize_code(code1)
        t2 == normalize_code(code2)
    IN  (pc = "compared" /\ t1 # <<>> /\ t2 # <<>>
            /\ 2 * Min(Len(t1), Len(t2)) < Max(Len(t1), Len(t2)))
        => FracLess(sim, Half)

C7_Witness ==
    LET t1 == normalize_code(code1)
        t2 == normalize_code(code2)
    IN  /\ pc = "compared"
        /\ t1 # <<>>
        /\ 2 * Len(t1) < Len(t2)
        /\ FracLess(Zero, sim)
        /\ FracLess(sim, Half)
        /\ FracEq(JaccardOf(t1, t2), Zero)

(***************************************************************************)
(* The similarity search called on a target, a corpus, an id to exclude    *)
(* and a threshold.                                                        *)
(***************************************************************************)
TargetTexts ==
    { <<"a">>,
      <<"A", " ", "/", "/", "b">>,
      <<"/", "*", "*", "/">> }

CorpusTexts ==
    { <<>>,
      <<"a">>,
      <<"A", " ", "/", "/", "b">>,
      <<"/", "/", "a">>,
      <<"b", "a", "b">>,
      <<"a", "b", "a", "b">> }

Ids == {0, 1}

Entries == [id : Ids, file_content : CorpusTexts]

\* 0, 33.33 and the default 70.0
Thresholds == {0, 3333, 7000}

InitFind ==
    /\ pc = "idle"
    /\ code1 \in TargetTexts
    /\ code2 = <<>>
    /\ out = <<>>
    /\ sim = Zero
    /\ corpus \in SeqsUpTo(Entries, MaxCorpus)
    /\ excludeId \in Ids \cup {None}
    /\ threshold \in Thresholds
    /\ similar = <<>>
    /\ scores = NoScores
    /\ llm = 0
    /\ assessment = NoAssessment
    /\ ReasonIdle
    /\ BatchIdle

FindSimilar ==
    /\ pc = "idle"
    /\ similar' = find_similar_submissions(code1, corpus, excludeId, threshold)
    /\ pc' = "searched"
    /\ UNCHANGED <<code1, code2, out, sim, corpus, excludeId, threshold, scores, llm,
                   assessment, reasonVars, batchVars>>

SpecFind == InitFind /\ [][FindSimilar]_vars

\* C3: no returned entry has the id given to exclude, whatever the id.
C3_NeverReturnsExcluded ==
    (pc = "searched" /\ excludeId # None) =>
        \A k \in 1..Len(similar) : similar[k].submission_id # excludeId

\* C4: every returned entry reports a similarity that is at least the
\* threshold.
C4_ReportedAtLeastThreshold ==
    pc = "searched" =>
        \A k \in 1..Len(similar) : 10 * similar[k].similarity >= threshold

\* C8: a corpus entry with content, not excluded, whose normalized content
\* is the target's, is returned with similarity 100.0.
C8_SameNormalizedIsHundred ==
    pc = "searched" =>
        \A i \in 1..Len(corpus) :
            (/\ corpus[i].file_content # <<>>
             /\ corpus[i].id # excludeId
             /\ normalize_code(corpus[i].file_content) = normalize_code(code1))
            => \E k \in 1..Len(similar) :
                  /\ similar[k].submission_id = corpus[i].id
                  /\ similar[k].similarity = 1000

C8_Witness ==
    /\ pc = "searched"
    /\ Len(corpus) > 1
    /\ \E i \in 2..Len(corpus) :
          /\ corpus[i].file_content # code1
          /\ corpus[i].id # excludeId
          /\ corpus[i].id # corpus[1].id
          /\ normalize_code(corpus[i].file_content) = normalize_code(code1)
          /\ normalize_code(code1) # <<>>
          /\ \E k \in 1..Len(similar) :
                /\ similar[k].submission_id = corpus[i].id
                /\ similar[k].similarity = 1000

\* C9: the returned list is in non-increasing order of similarity.
C9_SortedDescending ==
    pc = "searched" =>
        \A k \in 1..(Len(similar) - 1) : similar[k].similarity >= similar[k + 1].similarity

C9_Witness ==
    /\ pc = "searched"
    /\ Len(similar) > 1
    /\ similar[1].similarity > similar[Len(similar)].similarity
    /\ similar[1].submission_id = corpus[Len(corpus)].id
    /\ similar[1].submission_id # corpus[1].id

(***************************************************************************)
(* The combiner called on the subscores of a text and the score of the     *)
(* advisory model.                                                         *)
(***************************************************************************)
InitCheckAi ==
    /\ pc = "idle"
    /\ code1 = <<>>
    /\ code2 = <<>>
    /\ out = <<>>
    /\ sim = Zero
    /\ corpus = <<>>
    /\ excludeId = 0
    /\ threshold = 0
    /\ similar = <<>>
    /\ scores \in SubScores
    /\ aiInd = AiIndicatorsOf(scores)
    /\ humanInd = HumanIndicatorsOf(scores)
    /\ \E r \in LlmResults :
          /\ llm = r.ai_score
          /\ llmReason = r.reason
    /\ assessment = NoAssessment
    /\ BatchIdle

CheckAiGenerated ==
    /\ pc = "idle"
    /\ \E combined_score \in CombinedScores(scores, llm) :
          assessment' = Assessment(combined_score, scores, aiInd, humanInd, llm, llmReason)
    /\ pc' = "assessed"
    /\ UNCHANGED <<code1, code2, out, sim, corpus, excludeId, threshold, similar, scores, llm,
                   reasonVars, batchVars>>

SpecCheckAi == InitCheckAi /\ [][CheckAiGenerated]_vars

\* C10: the verdict is 'Likely AI' for a score of 65 or more, 'Likely Human'
\* for a score of 35 or less and 'Uncertain' otherwise, of the ai_score
\* returned with it.
C10_VerdictOfScore ==
    pc = "assessed" =>
        /\ (assessment.ai_score >= 65 => assessment.verdict = "Likely AI")
        /\ (assessment.ai_score <= 35 => assessment.verdict = "Likely Human")
        /\ (assessment.ai_score > 35 /\ assessment.ai_score < 65
               => assessment.verdict = "Uncertain")

C10_Witness ==
    /\ pc = "assessed"
    /\ assessment.ai_score = 65
    /\ assessment.verdict = "Likely AI"
    /\ 2 * ((6 * RuleScore100(scores) + 400 * llm) % 1000) > 1000

(***************************************************************************)
(* The combiner on its own: every subscore is absent or one of a few       *)
(* values of 0..100, and the advisory score is one of a few values of      *)
(* 0..100.                                                                 *)
(***************************************************************************)
ScoreGrid == {0, 80, 100}
LlmGrid == {0, 37, 50, 80, 100}

PartialScores == UNION {[D -> ScoreGrid] : D \in SUBSET Heuristics}

InitCombine ==
    /\ pc = "idle"
    /\ code1 = <<>>
    /\ code2 = <<>>
    /\ out = <<>>
    /\ sim = Zero
    /\ corpus = <<>>
    /\ excludeId = 0
    /\ threshold = 0
    /\ similar = <<>>
    /\ scores \in PartialScores
    /\ aiInd = AiIndicatorsOf(scores)
    /\ humanInd = HumanIndicatorsOf(scores)
    /\ llm \in LlmGrid
    /\ llmReason = ReasonPlain
    /\ assessment = NoAssessment
    /\ BatchIdle

SpecCombine == InitCombine /\ [][CheckAiGenerated]_vars

\* The subscore of key that enters the rule score: 50 when it is missing.
Entering(key) == IF key \in DOMAIN scores THEN scores[key] ELSE 50

\* A thousand times rule_score * 0.6 + advisory * 0.4, with the weights of
\* the claim, which sum to 1.00.
Blend1000 ==
    6 * (20 * Entering("variables") + 20 * Entering("comments")
         + 15 * Entering("indentation") + 10 * Entering("functions")
         + 15 * Entering("error_handling") + 10 * Entering("debug")
         + 5 * Entering("line_length") + 5 * Entering("spacing"))
    + 400 * llm

\* C11: the final score is rule_score * 0.6 + advisory * 0.4 rounded to a
\* nearest integer and clamped to [0, 100], the rule score being the sum of
\* the subscores weighted 0.20, 0.20, 0.15, 0.10, 0.15, 0.10, 0.05, 0.05 with
\* a missing subscore counted as 50; a rule score of 80 with an advisory
\* score of 80 gives 80 and 'Likely AI'.
C11_BlendOfRuleAndAdvisory ==
    pc = "assessed" =>
        /\ 20 + 20 + 15 + 10 + 15 + 10 + 5 + 5 = 100
        /\ \E r \in (0 - 1)..101 :
              /\ 1000 * r - Blend1000 \in (0 - 500)..500
              /\ assessment.ai_score = Min(100, Max(0, r))
        /\ (Blend1000 = 80000 /\ llm = 80) =>
              (assessment.ai_score = 80 /\ assessment.verdict = "Likely AI")

C11_Witness ==
    /\ pc = "assessed"
    /\ scores = [h \in Heuristics |-> 80]
    /\ llm = 80
    /\ assessment.ai_score = 80
    /\ assessment.verdict = "Likely AI"

\* C12: for every subscore in 0..100, present or missing, and every advisory
\* score in 0..100, the ai_score is an integer of 0..100.
C12_ScoreInRange ==
    pc = "assessed" => assessment.ai_score \in 0..100

C12_Witness ==
    /\ pc = "assessed"
    /\ scores = [h \in Heuristics |-> 100]
    /\ llm = 100
    /\ assessment.ai_score = 100

(***************************************************************************)
(* Monotonicity of the combiner, checked on the assessments of             *)
(* SpecCheckAi.                                                            *)
(***************************************************************************)
VerdictRank(v) ==
    IF v = "Likely Human" THEN 0 ELSE IF v = "Uncertain" THEN 1 ELSE 2

\* The values one subscore can be raised to: the next integer, the scores of
\* the higher branches of its heuristic, and 100.
RaisedValues(h) ==
    {v \in {scores[h] + 1, 100} \cup {b.score : b \in Branches[h]} :
        v > scores[h] /\ v <= 100}

Raised(h, v) == [scores EXCEPT ![h] = v]

\* C13: with the advisory score fixed, raising one subscore never lowers the
\* final score and never moves the verdict toward 'Likely Human'.
C13_Monotone ==
    pc = "assessed" =>
        \A h \in Heuristics : \A v \in RaisedValues(h) :
            \A c \in CombinedScores(Raised(h, v), llm) :
                /\ Min(100, Max(0, c)) >= assessment.ai_score
                /\ VerdictRank(Verdict(c)) >= VerdictRank(assessment.verdict)

\* An assessment 'Uncertain' that raising one subscore turns into 'Likely AI'.
C13_Witness ==
    /\ pc = "assessed"
    /\ assessment.verdict = "Uncertain"
    /\ \E h \in Heuristics : \E v \in RaisedValues(h) :
          \A c \in CombinedScores(Raised(h, v), llm) :
              /\ c > assessment.ai_score
              /\ Verdict(c) = "Likely AI"

(***************************************************************************)
(* The advisory opinion that is unavailable, and the reason of the         *)
(* assessment, checked on the assessments of SpecCheckAi.                  *)
(***************************************************************************)
\* Six times the rule score in hundredths plus 400 times the neutral
\* default 50: a thousand times rule_score * 0.6 + 20.
BlendWithNeutral1000 == 6 * RuleScore100(scores) + 400 * 50

\* C14: whenever the reason of the advisory opinion is treated as the
\* 'unavailable' sentinel, the advisory score that enters the final score is
\* 50: the final score is round(rule_score * 0.6 + 20).
C14_SentinelEntersAsFifty ==
    (pc = "assessed" /\ MentionsUnavailable(llmReason)) =>
        1000 * assessment.ai_score - BlendWithNeutral1000 \in (0 - 500)..500

\* The reason get_llm_ai_analysis gives to a failed call begins with
\* 'LLM unavailable'; every other reason is that of an available opinion.
LlmUnavailablePrefix == SubSeq(ReasonFailure, 1, 15)

Available(reason) ==
    /\ reason # <<>>
    /\ ~(Len(reason) >= 15 /\ SubSeq(reason, 1, 15) = LlmUnavailablePrefix)

ExpectedParts ==
    (IF aiInd # <<>> THEN <<[tag |-> "[Pattern]", text |-> aiInd[1]]>> ELSE <<>>)
    \o (IF humanInd # <<>> THEN <<[tag |-> "[Pattern]", text |-> humanInd[1]]>> ELSE <<>>)
    \o (IF Available(llmReason)
        THEN <<[tag |-> "[LLM]", text |-> SubSeq(llmReason, 1, Min(Len(llmReason), 100))]>>
        ELSE <<>>)

\* C15: the reason is, in this order, the first AI indicator, the first
\* human indicator and the advisory reason (its first 100 characters), each
\* with its source tag, absent parts skipped; it is 'Standard code
\* patterns' exactly when all three are absent; an available advisory reason
\* is never skipped.
C15_ReasonOfParts ==
    pc = "assessed" =>
        /\ assessment.reason =
              (IF ExpectedParts = <<>> THEN StandardCodePatterns ELSE ExpectedParts)
        /\ (assessment.reason = StandardCodePatterns) <=>
              (aiInd = <<>> /\ humanInd = <<>> /\ ~Available(llmReason))
        /\ Available(llmReason) =>
              \E i \in 1..Len(assessment.reason) : assessment.reason[i].tag = "[LLM]"

(***************************************************************************)
(* Corpus entries without content, checked on the searches of SpecFind.    *)
(* An entry whose content is missing and one whose content is the empty    *)
(* text are the same to sub.get('file_content'); both are the entry with   *)
(* the empty content.                                                      *)
(***************************************************************************)
HasContent(e) == e.file_content # <<>>

WithContent == SelectSeq(corpus, HasContent)

\* C19: the search skips every corpus entry without content: the result is
\* that of the search over the corpus without those entries, so such an entry
\* adds no match and the entries after it are still compared.
C19_SkipsEntriesWithoutContent ==
    pc = "searched" =>
        /\ similar = find_similar_submissions(code1, WithContent, excludeId, threshold)
        /\ Len(similar) <= Len(WithContent)
        /\ \A k \in 1..Len(similar) :
              \E i \in 1..Len(corpus) :
                  HasContent(corpus[i]) /\ corpus[i].id = similar[k].submission_id

\* An entry without content comes first and the entry after it is matched.
C19_Witness ==
    /\ pc = "searched"
    /\ Len(corpus) = 2
    /\ ~HasContent(corpus[1])
    /\ corpus[2].id # corpus[1].id
    /\ Len(similar) = 1
    /\ similar[1].submission_id = corpus[2].id

(***************************************************************************)
(* get_llm_ai_analysis, src/evaluator.py:214-279.  The call of the         *)
(* advisory model either raises or gives a reply; a reply is the sequence  *)
(* of its lines, and a line is what the parser reads of it: whether its    *)
(* upper-cased text contains 'AI_SCORE:', whether it contains 'REASON:',   *)
(* the numbers re.findall(r'\d+', line) finds in it, and its text after    *)
(* the first colon, stripped.                                              *)
(***************************************************************************)
Line(score_tag, reason_tag, numbers, rest) ==
    [score_tag |-> score_tag, reason_tag |-> reason_tag, numbers |-> numbers, rest |-> rest]

ReplyLines ==
    {Line(TRUE, FALSE, <<85>>, <<"8", "5">>),
     Line(TRUE, FALSE, <<150>>, <<"1", "5", "0">>),
     Line(TRUE, FALSE, <<0, 100>>, <<"[", "0", "-", "1", "0", "0", "]">>),
     Line(TRUE, FALSE, <<>>, <<"h", "i", "g", "h">>),
     Line(TRUE, TRUE, <<70>>, <<"7", "0", " ", "R", "E", "A", "S", "O", "N", ":">>),
     Line(FALSE, TRUE, <<>>, ReasonPlain),
     Line(FALSE, TRUE, <<>>, ReasonMentions),
     Line(FALSE, TRUE, <<>>, <<>>),
     Line(FALSE, FALSE, <<3>>, <<>>)}

Replies ==
    {[fails |-> TRUE, lines |-> <<>>]}
        \cup {[fails |-> FALSE, lines |-> l] : l \in SeqsUpTo(ReplyLines, MaxLines)}

\* Mutant: the parsed score is returned as it is.
Clamp_None(n) == n

\* min(100, max(0, ai_score))
Clamp(n) == Min(100, Max(0, n))

\* The loop over result_text.split('\n'), from line i on, with the score and
\* the reason parsed so far.
RECURSIVE ParseLines(_, _, _, _)
ParseLines(lines, i, ai_score, reason) ==
    IF i > Len(lines) THEN [ai_score |-> ai_score, reason |-> reason]
    ELSE LET line == lines[i]
         IN  IF line.score_tag
             THEN ParseLines(lines, i + 1,
                             IF line.numbers # <<>> THEN line.numbers[1] ELSE ai_score,
                             reason)
             ELSE IF line.reason_tag
                  THEN ParseLines(lines, i + 1, ai_score, line.rest)
                  ELSE ParseLines(lines, i + 1, ai_score, reason)

get_llm_ai_analysis(r) ==
    IF r.fails
    THEN [ai_score |-> 50, reason |-> ReasonFailure]
    ELSE LET parsed == ParseLines(r.lines, 1, 50, <<>>)
         IN  [ai_score |-> Clamp(parsed.ai_score),
              reason |-> IF parsed.reason # <<>> THEN parsed.reason ELSE ReasonCompleted]

InitLlm ==
    /\ pc = "idle"
    /\ code1 = <<>>
    /\ code2 = <<>>
    /\ out = <<>>
    /\ sim = Zero
    /\ corpus = <<>>
    /\ excludeId = 0
    /\ threshold = 0
    /\ similar = <<>>
    /\ scores = NoScores
    /\ llm = 0
    /\ assessment = NoAssessment
    /\ ReasonIdle
    /\ reply \in Replies
    /\ submissions = <<>>
    /\ idx = 0
    /\ results = <<>>
    /\ openConns = 0
    /\ stored = <<>>
    /\ summary = NoSummary
    /\ saved = <<>>

GetLlmAnalysis ==
    /\ pc = "idle"
    /\ LET llm_result == get_llm_ai_analysis(reply)
       IN  /\ llm' = llm_result.ai_score
           /\ llmReason' = llm_result.reason
    /\ pc' = "advised"
    /\ UNCHANGED <<code1, code2, out, sim, corpus, excludeId, threshold, similar, scores,
                   assessment, aiInd, humanInd, batchVars>>

SpecLlm == InitLlm /\ [][GetLlmAnalysis]_vars

\* The positions of the lines of the reply that set the score.
ScoreLines == {i \in 1..Len(reply.lines) :
                  reply.lines[i].score_tag /\ reply.lines[i].numbers # <<>>}

LastOf(S) == CHOOSE i \in S : \A j \in S : j <= i

\* C20: get_llm_ai_analysis returns a score of 0..100 and a reason that is
\* not empty; the score is the parsed one clamped to [0, 100], 50 when no
\* line of the reply gives a score, and a failed call gives 50 with a reason
\* that begins 'LLM unavailable'.
C20_ScoreAndReasonAlways ==
    pc = "advised" =>
        /\ llm \in 0..100
        /\ llmReason # <<>>
        /\ reply.fails =>
              /\ llm = 50
              /\ SubSeq(llmReason, 1, 15) =
                    <<"L", "L", "M", " ", "u", "n", "a", "v", "a", "i", "l", "a", "b", "l", "e">>
        /\ (~reply.fails /\ ScoreLines = {}) => llm = 50
        /\ (~reply.fails /\ ScoreLines # {}) =>
              LET n == reply.lines[LastOf(ScoreLines)].numbers[1]
              IN  llm = IF n > 100 THEN 100 ELSE n

\* A reply whose score line gives 150, returned as 100.
C20_Witness ==
    /\ pc = "advised"
    /\ ~reply.fails
    /\ ScoreLines # {}
    /\ reply.lines[LastOf(ScoreLines)].numbers[1] = 150
    /\ llm = 100
    /\ llmReason = ReasonCompleted

(***************************************************************************)
(* check_all_submissions_for_ai, src/check_ai_plagiarism.py:10-79.  The    *)
(* submissions are those of the database, each with its own id and with    *)
(* or without content.  One step is one iteration of the loop.  The        *)
(* assessment of a submission is one of a few results of                   *)
(* check_ai_generated; the update of the database succeeds or raises when  *)
(* connecting, when executing the UPDATE or when committing.               *)
(***************************************************************************)
BatchScores == {20, 38, 50, 67, 90}
DbOutcomes == {"ok", "connect", "execute", "commit"}

Submission(id, has_content) == [id |-> id, has_content |-> has_content]

SubmissionLists ==
    UNION {{[i \in 1..n |-> Submission(i, c[i])] : c \in [1..n -> BOOLEAN]} : n \in 0..MaxSubs}

\* results.append({... 'ai_score': ai_score, 'verdict': verdict ...})
ResultEntry(sub, ai_score) ==
    [id |-> sub.id, ai_score |-> ai_score, verdict |-> Verdict(ai_score)]

\* except Exception as e: results.append({... 'ai_score': 0, 'verdict': 'Error' ...})
ErrorEntry(sub) == [id |-> sub.id, ai_score |-> 0, verdict |-> "Error"]

InitBatch ==
    /\ pc = "checking"
    /\ code1 = <<>>
    /\ code2 = <<>>
    /\ out = <<>>
    /\ sim = Zero
    /\ corpus = <<>>
    /\ excludeId = 0
    /\ threshold = 0
    /\ similar = <<>>
    /\ scores = NoScores
    /\ llm = 0
    /\ assessment = NoAssessment
    /\ ReasonIdle
    /\ reply = NoReply
    /\ submissions \in SubmissionLists
    /\ idx = 0
    /\ results = <<>>
    /\ openConns = 0
    /\ stored = [i \in 1..Len(submissions) |-> None]
    /\ summary = NoSummary
    /\ saved = <<>>

\* if not sub.get('file_content'): continue
SkipWithoutContent ==
    /\ pc = "checking"
    /\ idx < Len(submissions)
    /\ ~submissions[idx + 1].has_content
    /\ idx' = idx + 1
    /\ UNCHANGED <<pc, code1, code2, out, sim, corpus, excludeId, threshold, similar, scores,
                   llm, assessment, reasonVars, reply, submissions, results, openConns, stored,
                   summary, saved>>

\* The connections left open that the runtime may close when conn is bound
\* to a new connection: the handler closes none of them, a runtime that
\* counts references closes them at once, another one later or never.
Reclaimable(db, open) == IF db = "connect" THEN {0} ELSE 0..open

\* The try block and its except clause for a submission with content.
CheckSubmission ==
    /\ pc = "checking"
    /\ idx < Len(submissions)
    /\ submissions[idx + 1].has_content
    /\ \E ai_score \in BatchScores, db \in DbOutcomes :
          LET sub == submissions[idx + 1]
          IN  /\ results' = results \o <<ResultEntry(sub, ai_score)>>
                               \o (IF db = "ok" THEN <<>> ELSE <<ErrorEntry(sub)>>)
              /\ stored' = IF db = "ok" THEN [stored EXCEPT ![sub.id] = ai_score] ELSE stored
              /\ \E reclaimed \in Reclaimable(db, openConns) :
                    openConns' = (openConns - reclaimed)
                                 + (IF db \in {"execute", "commit"} THEN 1 ELSE 0)
    /\ idx' = idx + 1
    /\ UNCHANGED <<pc, code1, code2, out, sim, corpus, excludeId, threshold, similar, scores,
                   llm, assessment, reasonVars, reply, submissions, summary, saved>>

\* The lists of the summary report, src/check_ai_plagiarism.py:86-88.
Summary(res) ==
    [likely_ai |-> SelectSeq(res, LAMBDA r : r.ai_score >= 70),
     uncertain |-> SelectSeq(res, LAMBDA r : 40 <= r.ai_score /\ r.ai_score < 70),
     likely_human |-> SelectSeq(res, LAMBDA r : r.ai_score < 40)]

\* The summary report after the loop; without it when there is no
\* submission (if not submissions: return).
Summarize ==
    /\ pc = "checking"
    /\ idx = Len(submissions)
    /\ submissions # <<>>
    /\ summary' = Summary(results)
    /\ pc' = "summarized"
    /\ UNCHANGED <<code1, code2, out, sim, corpus, excludeId, threshold, similar, scores,
                   llm, assessment, reasonVars, reply, submissions, idx, results, openConns,
                   stored, saved>>

NextBatch == SkipWithoutContent \/ CheckSubmission \/ Summarize

SpecBatch == InitBatch /\ [][NextBatch]_vars

\* C18: in one run every submission contributes at most one entry to the
\* results list.
C18_AtMostOneEntry ==
    \A i \in 1..Len(submissions) :
        Cardinality({k \in 1..Len(results) : results[k].id = submissions[i].id}) <= 1

(***************************************************************************)
(* analyze_code_patterns, src/evaluator.py:73-213.  The text is a sequence *)
(* of characters; each regular expression of the code is an operator that  *)
(* scans the text as re.findall and re.search do, leftmost match first.    *)
(***************************************************************************)
Digits == {"0", "1", "2", "3", "4", "5", "6", "7", "8", "9"}
UpperLetters == DOMAIN LowerTable
LowerLetters == {LowerTable[c] : c \in UpperLetters}

\* \w
WordChars == UpperLetters \cup LowerLetters \cup Digits \cup {"_"}

\* The literal lit stands in s at position i.
HasAt(s, i, lit) ==
    /\ i + Len(lit) - 1 <= Len(s)
    /\ \A k \in 1..Len(lit) : s[i + k - 1] = lit[k]

\* lit in s
Contains(s, lit) == \E i \in 1..(Len(s) - Len(lit) + 1) : HasAt(s, i, lit)

\* The end of the match of \w* started at i.
RECURSIVE WordEnd(_, _)
WordEnd(s, i) == IF i <= Len(s) /\ s[i] \in WordChars THEN WordEnd(s, i + 1) ELSE i

\* The end of the match of \s* started at i.
RECURSIVE SpaceEnd(_, _)
SpaceEnd(s, i) == IF i <= Len(s) /\ s[i] \in Whitespace THEN SpaceEnd(s, i + 1) ELSE i

\* code_content.split('\n'), from position i on.
RECURSIVE SplitFrom(_, _)
SplitFrom(s, i) ==
    LET e == EndOfLine(s, i)
    IN  IF e > Len(s) THEN <<SubSeq(s, i, Len(s))>>
        ELSE <<SubSeq(s, i, e - 1)>> \o SplitFrom(s, e + 1)

\* Mutant: the empty lines are dropped.
SplitLines_NoEmptyLines(s) == SelectSeq(SplitFrom(s, 1), LAMBDA l : l # <<>>)

SplitLines(s) == SplitFrom(s, 1)

\* 1. Variable naming, src/evaluator.py:86-106.
ai_var_names ==
    {<<"a", "r", "r">>,
     <<"t", "e", "m", "p">>,
     <<"r", "e", "s", "u", "l", "t">>,
     <<"c", "o", "u", "n", "t">>,
     <<"s", "u", "m">>,
     <<"s", "i", "z", "e">>,
     <<"l", "e", "n">>,
     <<"n", "u", "m">>,
     <<"p", "t", "r">>,
     <<"n", "o", "d", "e">>}

human_var_names ==
    {<<"m", "y">>,
     <<"t", "h", "e">>,
     <<"t", "h", "i", "s">>,
     <<"f", "l", "a", "g">>,
     <<"c", "h", "e", "c", "k">>,
     <<"f", "o", "u", "n", "d">>,
     <<"a", "n", "s">>,
     <<"r", "e", "t">>,
     <<"v", "a", "l">>,
     <<"c", "n", "t">>,
     <<"i", "d", "x">>}

TypeKeywords ==
    {<<"i", "n", "t">>,
     <<"f", "l", "o", "a", "t">>,
     <<"c", "h", "a", "r">>,
     <<"d", "o", "u", "b", "l", "e">>,
     <<"l", "o", "n", "g">>}

\* A match of a regular expression: the text of its group and the position
\* after its end.
Found(group, next) == [group |-> group, next |-> next]
NoMatch == Found(<<>>, 0)

\* The least position of a set of positions that is not empty.
First(S) == CHOOSE j \in S : \A k \in S : j <= k

\* The match of r'\b(?:int|float|char|double|long)\s+(\w+)' at position i.
DeclaredAt(s, i) ==
    LET kws == {kw \in TypeKeywords : HasAt(s, i, kw)}
    IN  IF kws # {} /\ (i = 1 \/ s[i - 1] \notin WordChars)
        THEN LET a == i + Len(CHOOSE kw \in kws : TRUE)
                 b == SpaceEnd(s, a)
                 c == WordEnd(s, b)
             IN  IF b > a /\ c > b THEN Found(SubSeq(s, b, c - 1), c) ELSE NoMatch
        ELSE NoMatch

\* re.findall(r'\b(?:int|float|char|double|long)\s+(\w+)', code_content),
\* from position i on: the leftmost match, then the matches after its end.
RECURSIVE DeclaredNames(_, _)
DeclaredNames(s, i) ==
    LET at == {j \in i..Len(s) : DeclaredAt(s, j) # NoMatch}
    IN  IF at = {} THEN <<>>
        ELSE LET m == DeclaredAt(s, First(at))
             IN  <<m.group>> \o DeclaredNames(s, m.next)

\* The match of r'(\w+)\s*=' at position i.
AssignedAt(s, i) ==
    IF s[i] \in WordChars
    THEN LET c == WordEnd(s, i)
             e == SpaceEnd(s, c)
         IN  IF e <= Len(s) /\ s[e] = "=" THEN Found(SubSeq(s, i, c - 1), e + 1) ELSE NoMatch
    ELSE NoMatch

\* re.findall(r'(\w+)\s*=', code_content), from position i on.  A match
\* that starts inside a word ends where the match from the start of the
\* word ends, so the leftmost match starts at i or at the start of a word.
RECURSIVE AssignedNames(_, _)
AssignedNames(s, i) ==
    LET at == {j \in i..Len(s) :
                  (j = i \/ s[j - 1] \notin WordChars) /\ AssignedAt(s, j) # NoMatch}
    IN  IF at = {} THEN <<>>
        ELSE LET m == AssignedAt(s, First(at))
             IN  <<m.group>> \o AssignedNames(s, m.next)

var_pattern(code) == DeclaredNames(code, 1) \o AssignedNames(code, 1)

\* any(ai in v.lower() for ai in names)
NamedLike(v, names) == \E name \in names : Contains(Lower(v), name)

VariablesScore(code) ==
    LET vars_found == var_pattern(code)
        ai_var_count ==
            Cardinality({k \in 1..Len(vars_found) : NamedLike(vars_found[k], ai_var_names)})
        human_var_count ==
            Cardinality({k \in 1..Len(vars_found) : NamedLike(vars_found[k], human_var_names)})
    IN  IF ai_var_count > human_var_count /\ ai_var_count > 2 THEN 70
        ELSE IF human_var_count > 0 THEN 30
        ELSE 50

\* 2. Comments, src/evaluator.py:108-126.
\* The match of r'//.*|/\*[\s\S]*?\*/' at position i: a '//' with the rest
\* of its line, or a '/*' up to the first '*/' that closes it.
CommentAt(s, i) ==
    IF HasAt(s, i, <<"/", "/">>)
    THEN Found(SubSeq(s, i, EndOfLine(s, i) - 1), EndOfLine(s, i))
    ELSE IF HasAt(s, i, <<"/", "*">>) /\ BlockClosers(s, i) # {}
         THEN Found(SubSeq(s, i, First(BlockClosers(s, i)) + 1), First(BlockClosers(s, i)) + 2)
         ELSE NoMatch

\* re.findall(r'//.*|/\*[\s\S]*?\*/', code_content), from position i on.
RECURSIVE CommentsFrom(_, _)
CommentsFrom(s, i) ==
    LET at == {j \in i..Len(s) : s[j] = "/" /\ CommentAt(s, j) # NoMatch}
    IN  IF at = {} THEN <<>>
        ELSE LET m == CommentAt(s, First(at))
             IN  <<m.group>> \o CommentsFrom(s, m.next)

\* c.strip('/ ')[0:1].isupper()
StartsUpper(c) ==
    LET kept == {k \in 1..Len(c) : c[k] \notin {"/", " "}}
    IN  kept # {} /\ c[First(kept)] \in UpperLetters

Descriptive(c) == Len(c) > 20 /\ StartsUpper(c)
Short(c) == Len(c) < 15

\* descriptive_comments > comment_count * 0.6 and short_comments >
\* comment_count * 0.5 are compared in tenths.
CommentsScore(code) ==
    LET comments == CommentsFrom(code, 1)
        comment_count == Len(comments)
        descriptive_comments == Cardinality({k \in 1..Len(comments) : Descriptive(comments[k])})
        short_comments == Cardinality({k \in 1..Len(comments) : Short(comments[k])})
    IN  IF comment_count > 3 /\ 10 * descriptive_comments > 6 * comment_count THEN 75
        ELSE IF comment_count = 0 THEN 20
        ELSE IF 2 * short_comments > comment_count THEN 25
        ELSE 50

\* 3. Indentation, src/evaluator.py:128-154.
\* line.strip() is empty
IsBlank(line) == \A k \in 1..Len(line) : line[k] \in Whitespace

\* len(line) - len(line.lstrip())
LeadingSpaces(line) == SpaceEnd(line, 1) - 1

IndentationScore_AnyUnit(code) ==
    LET lines == SplitLines(code)
        indents == {LeadingSpaces(lines[k]) : k \in {m \in 1..Len(lines) : ~IsBlank(lines[m])}}
        indent_set == {i \in indents : i > 0}
    IN  IF indent_set = {} THEN 50
        ELSE LET min_indent == First(indent_set)
                 consistent == \A i \in indents : i % min_indent = 0 \/ i = 0
             IN  IF consistent THEN 70 ELSE 20

IndentationScore(code) ==
    LET lines == SplitLines(code)
        indents == {LeadingSpaces(lines[k]) : k \in {m \in 1..Len(lines) : ~IsBlank(lines[m])}}
        indent_set == {i \in indents : i > 0}
    IN  IF indent_set = {} THEN 50
        ELSE LET min_indent == First(indent_set)
                 consistent == \A i \in indents : i % min_indent = 0 \/ i = 0
             IN  IF consistent /\ min_indent \in {2, 4} THEN 70
                 ELSE IF ~consistent THEN 20
                 ELSE 50

\* 4. Function definitions, src/evaluator.py:156-166.
FuncKeywords ==
    {<<"i", "n", "t">>,
     <<"v", "o", "i", "d">>,
     <<"f", "l", "o", "a", "t">>,
     <<"c", "h", "a", "r">>,
     <<"d", "o", "u", "b", "l", "e">>}

\* The first ')' at or after i, or 0.
FirstClosing(s, i) ==
    LET at == {j \in i..Len(s) : s[j] = ")"}
    IN  IF at = {} THEN 0 ELSE First(at)

\* The match of r'(?:int|void|float|char|double)\s+(\w+)\s*\([^)]*\)\s*\{'
\* at position i.
FuncDefAt(s, i) ==
    LET kws == {kw \in FuncKeywords : HasAt(s, i, kw)}
        a == i + (IF kws = {} THEN 0 ELSE Len(CHOOSE kw \in kws : TRUE))
        b == SpaceEnd(s, a)
        c == WordEnd(s, b)
        d == SpaceEnd(s, c)
        e == FirstClosing(s, d + 1)
        f == SpaceEnd(s, e + 1)
    IN  IF /\ kws # {}
           /\ b > a
           /\ c > b
           /\ d <= Len(s) /\ s[d] = "("
           /\ e > 0
           /\ f <= Len(s) /\ s[f] = "{"
        THEN Found(SubSeq(s, b, c - 1), f + 1)
        ELSE NoMatch

\* re.findall(r'(?:int|void|float|char|double)\s+(\w+)\s*\([^)]*\)\s*\{',
\* code_content), from position i on.
RECURSIVE func_defs(_, _)
func_defs(s, i) ==
    LET at == {j \in i..Len(s) : FuncDefAt(s, j) # NoMatch}
    IN  IF at = {} THEN <<>>
        ELSE LET m == FuncDefAt(s, First(at))
             IN  <<m.group>> \o func_defs(s, m.next)

\* len(f) > 8 and ('_' in f or any(c.isupper() for c in f[1:]))
DescriptiveFunc(f) ==
    /\ Len(f) > 8
    /\ \/ \E k \in 1..Len(f) : f[k] = "_"
       \/ \E k \in 2..Len(f) : f[k] \in UpperLetters

FunctionsScore(code) ==
    LET funcs == func_defs(code, 1)
        descriptive_funcs == Cardinality({k \in 1..Len(funcs) : DescriptiveFunc(funcs[k])})
    IN  IF descriptive_funcs > 0 THEN 65 ELSE 40

\* 5. Error handling, src/evaluator.py:168-179.  A pattern 'a.*b.*c' is the
\* sequence of its literals; '.' matches every character but the line
\* break, so the pattern is found when one line holds the literals in order.
RECURSIVE ChainFrom(_, _, _, _)
ChainFrom(line, lits, k, i) ==
    IF k > Len(lits) THEN TRUE
    ELSE LET at == {j \in i..(Len(line) - Len(lits[k]) + 1) : HasAt(line, j, lits[k])}
         IN  IF at = {} THEN FALSE
             ELSE ChainFrom(line, lits, k + 1, First(at) + Len(lits[k]))

\* re.search(p, code_content), the text given as its lines.
Search(lits, lines) == \E n \in 1..Len(lines) : ChainFrom(lines[n], lits, 1, 1)

error_patterns ==
    <<<<<<"i", "f">>, <<"N", "U", "L", "L">>>>,
      <<<<"i", "f">>, <<"<">>, <<"0">>>>,
      <<<<"i", "f">>, <<"=", "=">>, <<"0">>>>,
      <<<<"i", "f">>, <<"<", "=">>, <<"0">>>>,
      <<<<"r", "e", "t", "u", "r", "n">>, <<"-", "1">>>>,
      <<<<"r", "e", "t", "u", "r", "n">>, <<"N", "U", "L", "L">>>>>>

\* sum(1 for p in error_patterns if re.search(p, code_content))
error_handling(code) ==
    LET lines == SplitLines(code)
    IN  Cardinality({k \in 1..Len(error_patterns) : Search(error_patterns[k], lines)})

ErrorHandlingScore(code) ==
    LET found == error_handling(code)
    IN  IF found >= 3 THEN 75
        ELSE IF found = 0 THEN 20
        ELSE 45

\* 6. Debug leftovers, src/evaluator.py:181-189.  With re.IGNORECASE the
\* patterns, kept in lower case, are searched in the lower-cased text.
debug_patterns ==
    <<<<<<"p", "r", "i", "n", "t", "f">>, <<"d", "e", "b", "u", "g">>>>,
      <<<<"p", "r", "i", "n", "t", "f">>, <<"t", "e", "s", "t">>>>,
      <<<<"t", "o", "d", "o">>>>,
      <<<<"f", "i", "x", "m", "e">>>>,
      <<<<"x", "x", "x">>>>,
      <<<<"/", "/">>, <<"t", "e", "s", "t">>>>,
      <<<<"c", "o", "u", "t">>, <<"<", "<">>>>>>

debug_found(code) ==
    LET lines == SplitLines(Lower(code))
    IN  Cardinality({k \in 1..Len(debug_patterns) : Search(debug_patterns[k], lines)})

\* Mutant: one leftover is not enough.
DebugScore_MoreThanOne(code) == IF debug_found(code) > 1 THEN 15 ELSE 60

DebugScore(code) == IF debug_found(code) > 0 THEN 15 ELSE 60

\* 7. Line length, src/evaluator.py:191-202.  long_lines < len(lines) * 0.1
\* is compared in tenths.
LineLengthScore(code) ==
    LET lines == SplitLines(code)
        long_lines == Cardinality({k \in 1..Len(lines) : Len(lines[k]) > 80})
        very_long_lines == Cardinality({k \in 1..Len(lines) : Len(lines[k]) > 100})
    IN  IF very_long_lines = 0 /\ 10 * long_lines < Len(lines) THEN 65
        ELSE IF very_long_lines > 2 THEN 25
        ELSE 50

\* 8. Blank lines, src/evaluator.py:204-211.
\* len(re.findall(r'\n\s*\n\s*\n', code_content)), from position i on: a
\* match starts at a line break whose run of white space holds three line
\* breaks or more, and ends at the last line break of the run.
\* The line breaks of the run of white space that starts at i.
Breaks(s, i) == {j \in i..(SpaceEnd(s, i) - 1) : s[j] = "\n"}

RECURSIVE blank_sections(_, _)
blank_sections(s, i) ==
    LET at == {j \in i..Len(s) : s[j] = "\n" /\ Cardinality(Breaks(s, j)) >= 3}
    IN  IF at = {} THEN 0
        ELSE LET breaks == Breaks(s, First(at))
             IN  1 + blank_sections(s, (CHOOSE j \in breaks : \A k \in breaks : k <= j) + 1)

SpacingScore(code) ==
    LET sections == blank_sections(code, 1)
    IN  IF sections > 0 /\ sections < 5 THEN 60 ELSE 45

analyze_code_patterns(code_content) ==
    LET sc == [variables |-> VariablesScore(code_content),
               comments |-> CommentsScore(code_content),
               indentation |-> IndentationScore(code_content),
               functions |-> FunctionsScore(code_content),
               error_handling |-> ErrorHandlingScore(code_content),
               debug |-> DebugScore(code_content),
               line_length |-> LineLengthScore(code_content),
               spacing |-> SpacingScore(code_content)]
    IN  [scores |-> sc,
         ai_indicators |-> AiIndicatorsOf(sc),
         human_indicators |-> HumanIndicatorsOf(sc)]

(***************************************************************************)
(* The texts given to the analyzer: up to MaxChunks chunks joined by line  *)
(* breaks, each chunk one of a few lines of C that move the heuristics.    *)
(***************************************************************************)
\* Two empty lines.
BlankLines ==
    <<"\n">>

\* AI-typical names.
Declaration ==
    <<"i", "n", "t", " ", "a", "r", "r", " ", "=", " ", "s", "u", "m", " ",
      "=", " ", "l", "e", "n", " ", "=", " ", "0", ";">>

\* A human-idiomatic name, the marker TODO, three spaces of indentation.
TodoLine ==
    <<" ", " ", " ", "f", "l", "a", "g", " ", "=", " ", "1", ";", " ", "T",
      "O", "D", "O">>

\* A short comment.
ShortComment ==
    <<"/", "/", " ", "h", "m">>

\* Two lines, each a descriptive comment after four spaces of indentation.
DescriptiveComments ==
    <<" ", " ", " ", " ", "/", "/", " ", "C", "o", "m", "p", "u", "t", "e",
      " ", "t", "h", "e", " ", "t", "o", "t", "a", "l", " ", "s", "u", "m",
      "\n", " ", " ", " ", " ", "/", "/", " ", "R", "e", "t", "u", "r", "n",
      " ", "t", "h", "e", " ", "f", "i", "n", "a", "l", " ", "v", "a", "l",
      "u", "e">>

\* A descriptive function name.
FunctionHead ==
    <<"i", "n", "t", " ", "c", "o", "m", "p", "u", "t", "e", "T", "o", "t",
      "a", "l", "(", "i", "n", "t", " ", "n", ")", " ", "{">>

\* Three error patterns, two spaces of indentation.
NullCheck ==
    <<" ", " ", "i", "f", " ", "(", "p", " ", "=", "=", " ", "N", "U", "L",
      "L", ")", " ", "r", "e", "t", "u", "r", "n", " ", "-", "1", "0", ";">>

\* One error pattern, and a comment neither short nor descriptive.
SignCheck ==
    <<"i", "f", " ", "(", "n", " ", "<", " ", "0", ")", " ", "/", "/", " ",
      "l", "o", "w", "e", "r", " ", "c", "a", "s", "e", " ", "c", "o", "m",
      "m", "e", "n", "t", " ", "h", "e", "r", "e">>

\* A line of 81 characters and a line of 101 characters.
LongLine == [i \in 1..81 |-> "x"]
VeryLongLine == [i \in 1..101 |-> "x"]

Chunks ==
    {BlankLines, Declaration, TodoLine, ShortComment, DescriptiveComments, FunctionHead,
     NullCheck, SignCheck, LongLine, VeryLongLine}

\* "\n".join(chunks)
RECURSIVE JoinLines(_)
JoinLines(chunks) ==
    IF chunks = <<>> THEN <<>>
    ELSE IF Len(chunks) = 1 THEN chunks[1]
    ELSE chunks[1] \o <<"\n">> \o JoinLines(Tail(chunks))

AnalyzerTexts == {JoinLines(chunks) : chunks \in SeqsUpTo(Chunks, MaxChunks)}

\* The advisory score of the analysed texts: the lowest.
AnalyzerLlmScores == {0}

InitAnalyze ==
    /\ pc = "idle"
    /\ code1 \in AnalyzerTexts
    /\ code2 = <<>>
    /\ out = <<>>
    /\ sim = Zero
    /\ corpus = <<>>
    /\ excludeId = 0
    /\ threshold = 0
    /\ similar = <<>>
    /\ scores = NoScores
    /\ aiInd = <<>>
    /\ humanInd = <<>>
    /\ llm \in AnalyzerLlmScores
    /\ llmReason = ReasonPlain
    /\ assessment = NoAssessment
    /\ BatchIdle

\* analyze_code_patterns(code1)
AnalyzeCodePatterns ==
    /\ pc = "idle"
    /\ \E analysis \in {analyze_code_patterns(code1)} :
           /\ scores' = analysis.scores
           /\ aiInd' = analysis.ai_indicators
           /\ humanInd' = analysis.human_indicators
    /\ pc' = "analyzed"
    /\ UNCHANGED <<code1, code2, out, sim, corpus, excludeId, threshold, similar, llm,
                   llmReason, assessment, batchVars>>

\* check_ai_generated(code1), the advisory model giving llm and llmReason.
CheckAiGeneratedOnCode ==
    /\ pc = "idle"
    /\ \E analysis \in {analyze_code_patterns(code1)} :
           /\ scores' = analysis.scores
           /\ aiInd' = analysis.ai_indicators
           /\ humanInd' = analysis.human_indicators
           /\ \E combined_score \in CombinedScores(analysis.scores, llm) :
                 assessment' = Assessment(combined_score, analysis.scores,
                                          analysis.ai_indicators, analysis.human_indicators,
                                          llm, llmReason)
    /\ pc' = "assessed"
    /\ UNCHANGED <<code1, code2, out, sim, corpus, excludeId, threshold, similar, llm,
                   llmReason, batchVars>>

NextAnalyze == AnalyzeCodePatterns \/ CheckAiGeneratedOnCode

SpecAnalyze == InitAnalyze /\ [][NextAnalyze]_vars

\* C16: on the empty text the analyzer returns all eight subscores, each the
\* value of its heuristic when nothing is observed: variables 50, comments
\* 20, indentation 50, functions 40, error_handling 20, debug 60,
\* line_length 65, spacing 45.
C16_EmptyText ==
    (pc = "analyzed" /\ code1 = <<>>) =>
        /\ DOMAIN scores = Heuristics
        /\ scores.variables = 50
        /\ scores.comments = 20
        /\ scores.indentation = 50
        /\ scores.functions = 40
        /\ scores.error_handling = 20
        /\ scores.debug = 60
        /\ scores.line_length = 65
        /\ scores.spacing = 45

C16_Witness ==
    /\ pc = "analyzed"
    /\ code1 = <<>>
    /\ scores.line_length = 65
    /\ scores.comments = 20
    /\ humanInd # <<>>

\* The text holds the marker TODO.
HasTodo(code) == \E i \in 1..(Len(code) - 3) : SubSeq(code, i, i + 3) = <<"T", "O", "D", "O">>

\* The text holds no comment: no '//' and no '/*' that a '*/' closes.
HasNoComment(code) ==
    /\ \A i \in 1..(Len(code) - 1) : ~(code[i] = "/" /\ code[i + 1] = "/")
    /\ \A i \in 1..(Len(code) - 1) :
          (code[i] = "/" /\ code[i + 1] = "*") =>
              \A j \in (i + 2)..(Len(code) - 1) : ~(code[j] = "*" /\ code[j + 1] = "/")

\* C17: a text that holds TODO and no comment gets the debug subscore 15 and
\* the comments subscore 20, and with the advisory score 0 its verdict is
\* 'Likely Human' whatever the other six heuristics give.
C17_TodoWithoutComment ==
    (pc \in {"analyzed", "assessed"} /\ HasTodo(code1) /\ HasNoComment(code1)) =>
        /\ scores.debug = 15
        /\ scores.comments = 20
        /\ (pc = "assessed" /\ llm = 0) =>
              /\ assessment.verdict = "Likely Human"
              /\ \A sc \in SubScores :
                    (sc.debug = 15 /\ sc.comments = 20) =>
                        \A c \in CombinedScores(sc, 0) : Verdict(c) = "Likely Human"

\* A text with TODO, without comment and with a descriptive function name.
C17_Witness ==
    /\ pc = "assessed"
    /\ HasTodo(code1)
    /\ HasNoComment(code1)
    /\ llm = 0
    /\ scores.functions = 65
    /\ scores.debug = 15
    /\ assessment.verdict = "Likely Human"

\* The occurrences of defensive checks in a text: the matches of the error
\* patterns, one for each pattern and line where the pattern is found.
DefensiveChecks(code) ==
    LET lines == SplitLines(code)
    IN  Cardinality({m \in (1..Len(error_patterns)) \X (1..Len(lines)) :
                        ChainFrom(lines[m[2]], error_patterns[m[1]], 1, 1)})

\* C22: the error-handling subscore counts the occurrences of defensive
\* checks: three or more give 75, none gives 20, one or two give 45, also
\* when all the checks of the text are of the same kind.
C22_CountsOccurrences ==
    pc \in {"analyzed", "assessed"} =>
        scores.error_handling =
            IF DefensiveChecks(code1) >= 3 THEN 75
            ELSE IF DefensiveChecks(code1) = 0 THEN 20
            ELSE 45

(***************************************************************************)
(* The analyzer called on texts of comments: up to MaxComments lines, each *)
(* a line comment, a block comment or a statement.                         *)
(***************************************************************************)
\* A descriptive line comment, 24 characters.
DescriptiveLine ==
    <<"/", "/", " ", "C", "o", "m", "p", "u", "t", "e", " ", "t", "h", "e",
      " ", "t", "o", "t", "a", "l", " ", "s", "u", "m">>

\* A block comment of 28 characters that starts with an uppercase letter.
DescriptiveBlock ==
    <<"/", "*", " ", "R", "e", "t", "u", "r", "n", " ", "t", "h", "e", " ",
      "f", "i", "n", "a", "l", " ", "v", "a", "l", "u", "e", " ", "*", "/">>

\* A short block comment.
ShortBlock ==
    <<"/", "*", " ", "h", "m", " ", "*", "/">>

\* A line comment neither short nor descriptive.
LowerCaseLine ==
    <<"/", "/", " ", "l", "o", "w", "e", "r", " ", "c", "a", "s", "e", " ",
      "c", "o", "m", "m", "e", "n", "t", " ", "h", "e", "r", "e">>

\* A statement without comment.
Statement ==
    <<"x", " ", "=", " ", "1", ";">>

CommentChunks ==
    {ShortComment, DescriptiveLine, DescriptiveBlock, ShortBlock, LowerCaseLine, Statement}

CommentTexts == {JoinLines(chunks) : chunks \in SeqsUpTo(CommentChunks, MaxComments)}

InitComments ==
    /\ pc = "idle"
    /\ code1 \in CommentTexts
    /\ code2 = <<>>
    /\ out = <<>>
    /\ sim = Zero
    /\ corpus = <<>>
    /\ excludeId = 0
    /\ threshold = 0
    /\ similar = <<>>
    /\ scores = NoScores
    /\ aiInd = <<>>
    /\ humanInd = <<>>
    /\ llm \in AnalyzerLlmScores
    /\ llmReason = ReasonPlain
    /\ assessment = NoAssessment
    /\ BatchIdle

SpecComments == InitComments /\ [][AnalyzeCodePatterns]_vars

\* The first character of the text of a comment, after the comment opener
\* and blanks, is an uppercase letter.
TextStartsUpper(c) ==
    LET text == {k \in 1..Len(c) : c[k] \notin {"/", "*", " "}}
    IN  text # {} /\ c[First(text)] \in UpperLetters

\* The comments of a text that are descriptive: longer than 20 characters
\* and starting with an uppercase letter, line and block comments alike.
DescriptiveCount(comments) ==
    Cardinality({k \in 1..Len(comments) : Len(comments[k]) > 20 /\ TextStartsUpper(comments[k])})

ShortCount(comments) ==
    Cardinality({k \in 1..Len(comments) : Len(comments[k]) < 15})

\* C23: the comments subscore is 75 with more than 3 comments of which more
\* than 60% are descriptive, 20 with no comment, else 25 when more than
\* half of the comments are short, else 50; line comments and block
\* comments are classified alike.
C23_CommentsSubscore ==
    pc = "analyzed" =>
        LET comments == CommentsFrom(code1, 1)
            count == Len(comments)
        IN  scores.comments =
                IF count > 3 /\ 10 * DescriptiveCount(comments) > 6 * count THEN 75
                ELSE IF count = 0 THEN 20
                ELSE IF 2 * ShortCount(comments) > count THEN 25
                ELSE 50

(***************************************************************************)
(* The analyzer called on indented texts: up to MaxIndentLines lines, each *)
(* a statement after 0..MaxIndent spaces, an empty line or a line of       *)
(* spaces.                                                                 *)
(***************************************************************************)
Spaces(n) == [i \in 1..n |-> " "]

IndentedLine(width) == Spaces(width) \o <<"y", ";">>

IndentLines ==
    {IndentedLine(w) : w \in 0..MaxIndent} \cup {<<>>, Spaces(3)}

IndentTexts == {JoinLines(chunks) : chunks \in SeqsUpTo(IndentLines, MaxIndentLines)}

InitIndent ==
    /\ pc = "idle"
    /\ code1 \in IndentTexts
    /\ code2 = <<>>
    /\ out = <<>>
    /\ sim = Zero
    /\ corpus = <<>>
    /\ excludeId = 0
    /\ threshold = 0
    /\ similar = <<>>
    /\ scores = NoScores
    /\ aiInd = <<>>
    /\ humanInd = <<>>
    /\ llm \in AnalyzerLlmScores
    /\ llmReason = ReasonPlain
    /\ assessment = NoAssessment
    /\ BatchIdle

SpecIndent == InitIndent /\ [][AnalyzeCodePatterns]_vars

\* The leading-whitespace widths of the non-blank lines of a text.
Widths(code) ==
    LET lines == SplitLines(code)
    IN  {LeadingSpaces(lines[k]) : k \in {m \in 1..Len(lines) : ~IsBlank(lines[m])}}

NonZero(widths) == widths \ {0}

\* Every width is a multiple of the minimum non-zero width.
AllMultiples(widths) == \A w \in widths : w % First(NonZero(widths)) = 0

\* C24: the indentation subscore is 70 when a width is non-zero, every
\* width is a multiple of the minimum non-zero width and that minimum is 2
\* or 4; 20 when some width is not a multiple of the minimum non-zero
\* width; 50 in every other case.
C24_IndentationSubscore ==
    pc = "analyzed" =>
        LET widths == Widths(code1)
        IN  scores.indentation =
                IF NonZero(widths) = {} THEN 50
                ELSE IF ~AllMultiples(widths) THEN 20
                ELSE IF First(NonZero(widths)) \in {2, 4} THEN 70
                ELSE 50

\* Lines indented by 4 and by 8 spaces, next to a blank line, score 70.
C24_Witness ==
    /\ pc = "analyzed"
    /\ {4, 8} \subseteq Widths(code1)
    /\ Len(SplitLines(code1)) > Cardinality(Widths(code1))
    /\ scores.indentation = 70

\* The indicator that heuristic h yields for the subscores of the state.
Yielded(h, lean) == {b \in Branches[h] : b.score = scores[h] /\ b.lean = lean}

\* The positions, in the fixed order, of the heuristics that yielded an
\* indicator of the kind.
Yielding(lean) == {i \in 1..Len(HeuristicOrder) : Yielded(HeuristicOrder[i], lean) # {}}

\* The part of the reason for the kind: the indicator of the earliest
\* heuristic that yielded one.
Surfaced(lean) ==
    IF Yielding(lean) = {} THEN <<>>
    ELSE <<Part("[Pattern]",
                (CHOOSE b \in Yielded(HeuristicOrder[First(Yielding(lean))], lean) : TRUE).msg)>>

\* The indicators of both lists that are messages of heuristic h.
IndicatorsOfHeuristic(h) ==
    {<<"ai", k>> : k \in {j \in 1..Len(aiInd) : \E b \in Branches[h] : b.msg = aiInd[j]}}
    \cup {<<"human", k>> : k \in {j \in 1..Len(humanInd) : \E b \in Branches[h] : b.msg = humanInd[j]}}

\* C25: the AI indicator of the reason is that of the earliest heuristic, in
\* the order variables, comments, indentation, functions, error_handling,
\* debug, line_length, spacing, that yielded an AI-leaning indicator, the
\* human indicator that of the earliest heuristic that yielded a
\* human-leaning one; each heuristic appends at most one indicator.
C25_EarliestIndicators ==
    pc \in {"analyzed", "assessed"} =>
        /\ \A h \in Heuristics : Cardinality(IndicatorsOfHeuristic(h)) <= 1
        /\ Len(aiInd) = Cardinality(Yielding("ai"))
        /\ Len(humanInd) = Cardinality(Yielding("human"))
        /\ pc = "assessed" =>
              SelectSeq(assessment.reason, LAMBDA part : part.tag = "[Pattern]")
                  = Surfaced("ai") \o Surfaced("human")

\* Comments are the earliest of two heuristics with an AI-leaning
\* indicator, variables the earliest of several with a human-leaning one.
C25_Witness ==
    /\ pc = "assessed"
    /\ scores.variables = 30
    /\ scores.comments = 75
    /\ Len(aiInd) >= 2
    /\ Len(humanInd) >= 2
    /\ assessment.reason[1] = Part("[Pattern]", <<"Well-structured comments">>)
    /\ assessment.reason[2] = Part("[Pattern]", <<"Creative variable naming">>)

\* C26: every entry returned by find_similar_submissions reports, in
\* tenths, calculate_similarity(target, entry content) rounded to one
\* decimal; an entry reported at 100.0 through the hash fast path is one for
\* which calculate_similarity returns 100, also when both texts normalize
\* to the empty text.
C26_ReportsCalculatedSimilarity ==
    pc = "searched" =>
        \A k \in 1..Len(similar) :
            \E i \in 1..Len(corpus) :
                /\ corpus[i].id = similar[k].submission_id
                /\ ~NoContent(corpus[i])
                /\ similar[k].similarity
                       = RoundTenths(calculate_similarity(code1, corpus[i].file_content))

\* The list of the summary report that holds the entry r of the results.
SummaryListOf(r) ==
    IF \E k \in 1..Len(summary.likely_ai) : summary.likely_ai[k] = r THEN "Likely AI"
    ELSE IF \E k \in 1..Len(summary.uncertain) : summary.uncertain[k] = r THEN "Uncertain"
    ELSE IF \E k \in 1..Len(summary.likely_human) : summary.likely_human[k] = r
         THEN "Likely Human"
    ELSE "none"

\* C27: the label of the email report and the list of the batch summary for
\* an ai_score are the verdict that check_ai_generated returned for it.
C27_LabelsAgree ==
    pc = "summarized" =>
        \A k \in 1..Len(results) :
            results[k].verdict # "Error" =>
                /\ ai_label(results[k].ai_score) = results[k].verdict
                /\ SummaryListOf(results[k]) = results[k].verdict

\* C28: when the advisory call fails (advisory score 50, reason 'LLM
\* unavailable: ...') the verdict is never 'Likely AI': the rule score lies
\* between 25 and 69.5, so the combined score lies between 35 and 62.
C28_FailureNeverLikelyAi ==
    (pc = "assessed" /\ llm = 50 /\ llmReason = ReasonFailure) =>
        /\ 2500 <= RuleScore100(scores)
        /\ RuleScore100(scores) <= 6950
        /\ 35 <= assessment.ai_score
        /\ assessment.ai_score <= 62
        /\ assessment.verdict # "Likely AI"

\* The advisory call failed on a text with the highest subscores: the
\* combined score is 62 and the verdict 'Uncertain'.
C28_Witness ==
    /\ pc = "assessed"
    /\ llm = 50
    /\ llmReason = ReasonFailure
    /\ RuleScore100(scores) = 6950
    /\ assessment.ai_score = 62
    /\ assessment.verdict = "Uncertain"

(***************************************************************************)
(* upload_c_file, src/server.py:137-200, with evaluate_uploaded_content,   *)
(* src/evaluator.py:427-447.  The uploaded text is given by its subscores  *)
(* and the result of the advisory call; the evaluation of the code is      *)
(* given by its success, by whether its text holds PASS and by the score   *)
(* that extract_score_from_evaluation reads from it.                       *)
(***************************************************************************)
\* The requests: four that the handler refuses, one that it takes.
Requests ==
    {"Unauthorized", "No file part", "No selected file", "Only .c files allowed", "c file"}

\* The results of evaluate_code.
EvaluationFailed == [success |-> FALSE, mentions_pass |-> FALSE, overall |-> 0]

Evaluations ==
    {EvaluationFailed}
    \cup [success : {TRUE}, mentions_pass : BOOLEAN, overall : {0, 50, 59, 60, 85}]

\* The advisory results of the uploads.
UploadLlmResults ==
    {[ai_score |-> 0, reason |-> ReasonPlain],
     [ai_score |-> 90, reason |-> ReasonPlain],
     [ai_score |-> 50, reason |-> ReasonFailure]}

\* The row that save_submission inserts.
SavedSubmission(status, evaluated, score, ai_score) ==
    [status |-> status, evaluated |-> evaluated, score |-> score, ai_score |-> ai_score]

InitUpload ==
    /\ pc = "idle"
    /\ code1 = <<>>
    /\ code2 = <<>>
    /\ out = <<>>
    /\ sim = Zero
    /\ corpus = <<>>
    /\ excludeId = 0
    /\ threshold = 0
    /\ similar = <<>>
    /\ scores \in SubScores
    /\ aiInd = AiIndicatorsOf(scores)
    /\ humanInd = HumanIndicatorsOf(scores)
    /\ \E r \in UploadLlmResults :
          /\ llm = r.ai_score
          /\ llmReason = r.reason
    /\ assessment = NoAssessment
    /\ BatchIdle

\* A request that the handler refuses: nothing is evaluated or saved.
RefuseUpload ==
    /\ pc = "idle"
    /\ \E request \in Requests \ {"c file"} : pc' = request
    /\ UNCHANGED <<code1, code2, out, sim, corpus, excludeId, threshold, similar, scores, llm,
                   assessment, reasonVars, batchVars>>

\* A request with a .c file: the content is evaluated and checked, and the
\* submission is saved.
UploadCFile ==
    /\ pc = "idle"
    /\ \E evaluation_result \in Evaluations, combined_score \in CombinedScores(scores, llm) :
          LET ai_check == Assessment(combined_score, scores, aiInd, humanInd, llm, llmReason)
              score == IF evaluation_result.success THEN evaluation_result.overall ELSE 0
              ai_score == IF evaluation_result.success THEN ai_check.ai_score ELSE 0
              status == IF evaluation_result.success
                           /\ (evaluation_result.mentions_pass \/ score >= 60)
                        THEN "accepted"
                        ELSE "rejected"
          IN  /\ assessment' = ai_check
              /\ saved' = Append(saved, SavedSubmission(status, evaluation_result.success,
                                                        score, ai_score))
    /\ pc' = "uploaded"
    /\ UNCHANGED <<code1, code2, out, sim, corpus, excludeId, threshold, similar, scores, llm,
                   reasonVars, reply, submissions, idx, results, openConns, stored, summary>>

NextUpload == RefuseUpload \/ UploadCFile

SpecUpload == InitUpload /\ [][NextUpload]_vars

\* C29: the ai_score saved with a submission is the ai_score that
\* check_ai_generated computed for the uploaded content, on every path,
\* also when the evaluation of the code fails.
C29_SavedAiScore ==
    pc = "uploaded" =>
        /\ Len(saved) = 1
        /\ saved[1].ai_score = assessment.ai_score

\* C30: every connection opened for the score update of a submission is
\* closed before the loop moves on to the next submission, also when the
\* UPDATE or the commit raises: between two submissions, and after the
\* last, no connection is open.
C30_ConnectionsClosed == pc \in {"checking", "summarized"} => openConns = 0

====
